---- MODULE Spec2Model ----
(***************************************************************************)
(* The Dataminr integration's ingestion subsystem: the token cache and the *)
(* rate limiter of server/request.js, the retry loop of                    *)
(* requestWithDefaults, the page fetch of server/alerts/getAlerts.js, the  *)
(* poll cycle of server/alerts/pollAlerts.js and the scheduler and message *)
(* handler of integration.js.                                              *)
(*                                                                         *)
(* Node runs the program on one thread: every action below is one          *)
(* synchronous segment of a handler, from one await (or the handler's      *)
(* start) to the next await (or its return).                               *)
(***************************************************************************)
EXTENDS Integers, Sequences, FiniteSets, TLC

(***************************************************************************)
(* Bounds of the exploration.                                              *)
(***************************************************************************)
\* requestWithDefaults calls that run concurrently
NReq == 2
\* tokens the auth endpoint issues in one run
MaxTokens == 3
\* clock ticks per rate-limit window (the clock's resolution)
TicksPerWindow == 1
\* clock ticks explored
MaxTicks == 3
\* pollAlerts executions started in one run
NCycles == 3
\* getAlerts messages handled in one run
NMsgs == 2
\* alerts the API publishes in one run
MaxAlerts == 2
\* alerts per page when the request asks for MAX_PAGE_SIZE (10 in the program)
MAX_PAGE_SIZE == 1
\* the page ceiling of a steady-state cycle (1000 in the program)
maxPages == 2
\* alerts the cache retains
CacheMax == 3
\* pollPulseAlerts executions in one run
NPulseRuns == 3
\* getAlertById handlers
NLookups == 2
\* getAlerts handlers beside the running scheduler
NServeMsgs == 1
\* alert ids handed to addAlertsToCache in one run
MaxAdds == 5
\* the largest attempt number a retry delay is computed for
MaxAttempt == 12
\* requests handed to requestsInParallel
MaxParRequests == 7
\* the largest maxConcurrentRequests option
MaxConcurrentOpt == 3
\* requests handed to requestsInParallel of the request client
NClientRequests == 3

(***************************************************************************)
(* Program constants.                                                      *)
(***************************************************************************)
\* rateLimitState.limit and .remaining at module load
DefaultLimit == 6
\* rateLimitState.windowMs
windowMs == 30000
\* requestWithDefaults' maxRetries default; no caller passes another value
maxRetries == 3
\* options.pollInterval, in seconds: the smallest value the option allows
pollInterval == 30
\* the number the first poll hands to getAlerts
BootstrapCount == 10
\* createRequestsInParallel: options.maxConcurrentRequests || 5
DefaultConcurrent == 5
\* createRequestsInParallel: options.requestDelayMs || 5000
DefaultDelayMs == 5000
\* requestsInParallel of the request client: limit = 10
DefaultParallelLimit == 10

TickMs == windowMs \div TicksPerWindow
MaxTime == MaxTicks * TickMs

\* a value that is absent: null, undefined, a header the response lacks
Absent == -1

Min(a, b) == IF a <= b THEN a ELSE b
Max(a, b) == IF a >= b THEN a ELSE b

RECURSIVE Pow2(_)
Pow2(n) == IF n = 0 THEN 1 ELSE 2 * Pow2(n - 1)

\* the clock shows whole ticks: a sleep of d ms that starts during tick t
\* cannot end before tick t + floor(d / TickMs)
FloorTick(d) == (d \div TickMs) * TickMs

(***************************************************************************)
(* Responses and errors of request.run.  A status is a number ("n429"), a  *)
(* string ("s429") or missing ("none"); an error can carry it in .status,  *)
(* in .statusCode or in .meta.statusCode.                                  *)
(***************************************************************************)
StatusVals == {"none", "n401", "s401", "n429", "s429", "n404", "n500"}

NoHeaders == [limit |-> Absent, remaining |-> Absent, reset |-> Absent]
\* the quota is used up and resets one tick from now
ExhaustedHeaders == [limit |-> Absent, remaining |-> 0, reset |-> TickMs]
\* the headers the server sends in this exploration
RespHeaders == {NoHeaders, ExhaustedHeaders}
\* one request of the window is used and the window ends one tick from now
FreshHeaders == [limit |-> DefaultLimit, remaining |-> DefaultLimit - 1, reset |-> TickMs]

Err(src, isApi, status, statusCode, metaStatusCode, msg429, hdr) ==
    [src |-> src, isApi |-> isApi, status |-> status, statusCode |-> statusCode,
     metaStatusCode |-> metaStatusCode, msg429 |-> msg429, hdr |-> hdr]

NoError == Err("none", FALSE, "none", "none", "none", FALSE, NoHeaders)

E401 == Err("api", TRUE, "none", "none", "n401", FALSE, NoHeaders)
E429(hdr) == Err("api", TRUE, "none", "none", "n429", FALSE, hdr)
\* the 429 carried in .status only, as a string
E429Status == Err("api", TRUE, "s429", "none", "none", FALSE, NoHeaders)
\* the 429 visible in the message only
E429Msg == Err("api", TRUE, "none", "none", "none", TRUE, NoHeaders)
E500 == Err("api", TRUE, "none", "none", "n500", FALSE, NoHeaders)
E404 == Err("api", TRUE, "none", "none", "n404", FALSE, NoHeaders)
\* the 404 carried in .statusCode
E404Code == Err("api", TRUE, "none", "n404", "none", FALSE, NoHeaders)
\* a 500 whose response carries quota headers
E500With(hdr) == Err("api", TRUE, "none", "none", "n500", FALSE, hdr)
\* a transport error: not an ApiRequestError
ENet == Err("api", FALSE, "none", "none", "none", FALSE, NoHeaders)

\* the errors the alerts endpoint answers with in this exploration
ApiErrors == {E401, E500, E429Status} \cup {E429(h) : h \in RespHeaders}

\* the errors the token endpoint answers with
EAuth401 == Err("auth", TRUE, "none", "none", "n401", FALSE, NoHeaders)
EAuth429 == Err("auth", TRUE, "none", "none", "n429", FALSE, NoHeaders)
AuthErrors == {EAuth401, EAuth429}

Truthy(v) == v # "none"

\* error.status || error.statusCode || (error.meta && error.meta.statusCode)
errorStatus(e) ==
    IF Truthy(e.status) THEN e.status
    ELSE IF Truthy(e.statusCode) THEN e.statusCode
    ELSE e.metaStatusCode

isUnauthorizedError(e) == e.isApi /\ errorStatus(e) \in {"s401", "n401"}

isRateLimitError(e) ==
    e.isApi /\ (errorStatus(e) \in {"s429", "n429"} \/ e.msg429)

\* the delay before a 429 retry, had the backoff no upper limit
retryDelayUncapped(e, attemptNumber) ==
    IF e.hdr.reset # Absent THEN e.hdr.reset
    ELSE Pow2(attemptNumber) * 1000

\* the delay before a 429 retry, in ms
retryDelay(e, attemptNumber) ==
    IF e.hdr.reset # Absent THEN e.hdr.reset
    ELSE Min(Pow2(attemptNumber), 60) * 1000

(***************************************************************************)
(* State.                                                                  *)
(***************************************************************************)
VARIABLES
    now,            \* Date.now(), in ms, a multiple of TickMs
    tokenCache,     \* the token cached for the credential pair, 0 when none
    issued,         \* tokens the auth endpoint has issued: 1..issued
    authLog,        \* the token requests sent: who sent it, forced or not, the token it replaces
    rateLimitState, \* [limit, remaining, resetAt]
    quotaStart,     \* rateLimitState as it was at the start of the run
    call,           \* the requestWithDefaults calls
    pollingInitialized, \* integration.js: polling has been set up
    pollingInterval,    \* the setInterval timer: Absent, or the time it fires next
    timers,             \* the interval timers that run, oldest first: [due, period]
    pollingState,       \* stateManager: [lastPollTime, totalAlertsProcessed]
    alertCache,         \* stateManager: the cached alert ids, oldest insertion first
    published,          \* the API's alerts: published[i] describes alert i
    ingested,           \* the alert ids a poll cycle has folded into the cache
    started,            \* pollAlerts executions started so far
    cyc,                \* the pollAlerts executions
    msg,                \* the getAlerts message handlers
    lastGet,            \* the last getAlerts call that ended in an error: the error, the outcome
    pulse,              \* the pollPulseAlerts executions of the Pulse integration
    lookup,             \* the getAlertById message handlers
    par,                \* the requestsInParallel run
    cacheAdds,          \* the alert ids handed to addAlertsToCache by addAlerts, in order
    retryCalc           \* one evaluation of the 429 retry delay: its inputs, its result

reqVars == <<tokenCache, issued, authLog, rateLimitState, quotaStart, call>>
pollVars == <<pollingInitialized, pollingInterval, timers, pollingState, alertCache, published,
              ingested, started, cyc, msg, lastGet, pulse, lookup,
              par, cacheAdds, retryCalc>>
vars == <<now, reqVars, pollVars>>

Calls == 1 .. (DefaultLimit + 1)
ReqCalls == 1 .. NReq

IdleCall ==
    [pc |-> "idle", token |-> 0, tokenRefreshed |-> FALSE, attemptNumber |-> 0,
     lastError |-> NoError, thrown |-> NoError, sends |-> 0, sentAfterRefresh |-> FALSE,
     calledAt |-> Absent, wakeAt |-> Absent, slept |-> FALSE, lastHeaders |-> NoHeaders]

AuthReq(c, forced, stale) == [by |-> c, forced |-> forced, stale |-> stale]

DefaultRateLimitState ==
    [limit |-> DefaultLimit, remaining |-> DefaultLimit, resetAt |-> Absent]

(***************************************************************************)
(* The rate limiter.                                                       *)
(***************************************************************************)
updateRateLimitFromHeaders(rl, h, t) ==
    [limit |-> IF h.limit # Absent THEN h.limit ELSE rl.limit,
     remaining |-> IF h.remaining # Absent THEN h.remaining ELSE rl.remaining,
     resetAt |-> IF h.reset # Absent THEN t + h.reset ELSE rl.resetAt]

\* checkRateLimit's first step: the window that has passed is reset
AfterWindowReset(rl, t) ==
    IF rl.resetAt # Absent /\ t >= rl.resetAt
    THEN [rl EXCEPT !.remaining = rl.limit, !.resetAt = Absent]
    ELSE rl

\* the quota test read as "not below zero": one call too many passes
HasQuotaOffByOne(rl) == rl.remaining >= 0

\* if (rateLimitState.remaining > 0)
HasQuota(rl) == rl.remaining > 0

\* the request is sent: the while loop's test and request.run
SendOrGiveUp(rec) ==
    IF rec.attemptNumber <= maxRetries
    THEN [rec EXCEPT !.pc = "inflight", !.sends = rec.sends + 1,
                     !.sentAfterRefresh = rec.tokenRefreshed]
    ELSE [rec EXCEPT !.pc = "failed", !.thrown = rec.lastError]

\* checkRateLimit up to its return or its sleep
checkRateLimit(c) ==
    /\ call[c].pc = "rateCheck"
    /\ LET rl == AfterWindowReset(rateLimitState, now)
           rec == [call[c] EXCEPT !.calledAt = now]
       IN  IF HasQuota(rl)
           THEN /\ rateLimitState' = [rl EXCEPT !.remaining = rl.remaining - 1]
                /\ call' = [call EXCEPT ![c] = SendOrGiveUp(rec)]
           ELSE IF rl.resetAt # Absent /\ rl.resetAt > now
           THEN /\ rateLimitState' = rl
                /\ call' = [call EXCEPT ![c] =
                       [rec EXCEPT !.pc = "quotaSleepReset", !.wakeAt = rl.resetAt,
                                   !.slept = TRUE]]
           ELSE IF rl.remaining = 0
           THEN /\ rateLimitState' = rl
                /\ call' = [call EXCEPT ![c] =
                       [rec EXCEPT !.pc = "quotaSleepWindow",
                                   !.wakeAt = now + FloorTick(windowMs),
                                   !.slept = TRUE]]
           ELSE /\ rateLimitState' = rl
                /\ call' = [call EXCEPT ![c] = SendOrGiveUp(rec)]
    /\ UNCHANGED <<pollVars, now, tokenCache, issued, authLog, quotaStart>>

\* the sleep until resetAt is over: the quota is reset, checkRateLimit returns
wakeAfterReset(c) ==
    /\ call[c].pc = "quotaSleepReset"
    /\ now >= call[c].wakeAt
    /\ rateLimitState' = [rateLimitState EXCEPT !.remaining = rateLimitState.limit,
                                                !.resetAt = Absent]
    /\ call' = [call EXCEPT ![c] = SendOrGiveUp([call[c] EXCEPT !.wakeAt = Absent])]
    /\ UNCHANGED <<pollVars, now, tokenCache, issued, authLog, quotaStart>>

\* the sleep of the default window is over
wakeAfterWindow(c) ==
    /\ call[c].pc = "quotaSleepWindow"
    /\ now >= call[c].wakeAt
    /\ rateLimitState' = [rateLimitState EXCEPT !.remaining = rateLimitState.limit]
    /\ call' = [call EXCEPT ![c] = SendOrGiveUp([call[c] EXCEPT !.wakeAt = Absent])]
    /\ UNCHANGED <<pollVars, now, tokenCache, issued, authLog, quotaStart>>

(***************************************************************************)
(* The token cache and getToken.                                           *)
(***************************************************************************)
\* getToken(options), had it skipped the cache: a token request every time
startCallIgnoresCache(c) ==
    /\ call[c].pc = "idle"
    /\ call' = [call EXCEPT ![c] = [@ EXCEPT !.pc = "tokenWait"]]
    /\ authLog' = authLog \cup {AuthReq(c, FALSE, 0)}
    /\ UNCHANGED <<pollVars, now, tokenCache, issued, rateLimitState, quotaStart>>

\* requestWithDefaults starts: getToken(options) answers from the cache or
\* sends a token request
startCall(c) ==
    /\ call[c].pc = "idle"
    /\ IF tokenCache # 0
       THEN /\ call' = [call EXCEPT ![c] = [@ EXCEPT !.pc = "rateCheck", !.token = tokenCache]]
            /\ UNCHANGED authLog
       ELSE /\ call' = [call EXCEPT ![c] = [@ EXCEPT !.pc = "tokenWait"]]
            /\ authLog' = authLog \cup {AuthReq(c, FALSE, 0)}
    /\ UNCHANGED <<pollVars, now, tokenCache, issued, rateLimitState, quotaStart>>

\* the token request of getToken(options) succeeds: the token is cached
tokenIssued(c) ==
    /\ call[c].pc = "tokenWait"
    /\ issued < MaxTokens
    /\ issued' = issued + 1
    /\ tokenCache' = issued + 1
    /\ call' = [call EXCEPT ![c] = [@ EXCEPT !.pc = "rateCheck", !.token = issued + 1]]
    /\ UNCHANGED <<pollVars, now, authLog, rateLimitState, quotaStart>>

\* it fails: getToken rethrows and requestWithDefaults rejects
tokenFailed(c, e) ==
    /\ call[c].pc = "tokenWait"
    /\ call' = [call EXCEPT ![c] = [@ EXCEPT !.pc = "failed", !.thrown = e]]
    /\ UNCHANGED <<pollVars, now, tokenCache, issued, authLog, rateLimitState, quotaStart>>

\* the cached token's time to live runs out
tokenCacheExpires ==
    /\ tokenCache # 0
    /\ tokenCache' = 0
    /\ UNCHANGED <<pollVars, now, issued, authLog, rateLimitState, quotaStart, call>>

(***************************************************************************)
(* requestWithDefaults: the retry loop.                                    *)
(***************************************************************************)
\* request.run resolves
responseOk(c, h) ==
    /\ call[c].pc = "inflight"
    /\ rateLimitState' = updateRateLimitFromHeaders(rateLimitState, h, now)
    /\ call' = [call EXCEPT ![c] = [@ EXCEPT !.pc = "done", !.lastHeaders = h]]
    /\ UNCHANGED <<pollVars, now, tokenCache, issued, authLog, quotaStart>>

\* what the catch block does with error e
CatchBranch(rec, e) ==
    IF isUnauthorizedError(e) /\ ~rec.tokenRefreshed THEN "refresh"
    ELSE IF isRateLimitError(e) /\ rec.attemptNumber < maxRetries THEN "backoff"
    ELSE "throw"

\* request.run rejects with e, had the catch block left the error's headers unread
responseErrorSkipsHeaders(c, e) ==
    /\ call[c].pc = "inflight"
    /\ LET rec == [call[c] EXCEPT !.lastError = e, !.lastHeaders = e.hdr]
           branch == CatchBranch(rec, e)
       IN  /\ call' = [call EXCEPT ![c] =
                  CASE branch = "refresh" -> [rec EXCEPT !.pc = "refreshWait"]
                    [] branch = "backoff" ->
                         [rec EXCEPT !.pc = "backoff",
                                     !.wakeAt = now + FloorTick(retryDelay(e, rec.attemptNumber))]
                    [] OTHER -> [rec EXCEPT !.pc = "failed", !.thrown = e]]
           /\ tokenCache' = IF branch = "refresh" THEN 0 ELSE tokenCache
           /\ authLog' = IF branch = "refresh"
                         THEN authLog \cup {AuthReq(c, TRUE, rec.token)}
                         ELSE authLog
    /\ UNCHANGED <<pollVars, now, issued, rateLimitState, quotaStart>>

\* request.run rejects with e
responseError(c, e) ==
    /\ call[c].pc = "inflight"
    /\ rateLimitState' = updateRateLimitFromHeaders(rateLimitState, e.hdr, now)
    /\ LET rec == [call[c] EXCEPT !.lastError = e, !.lastHeaders = e.hdr]
           branch == CatchBranch(rec, e)
       IN  /\ call' = [call EXCEPT ![c] =
                  CASE branch = "refresh" -> [rec EXCEPT !.pc = "refreshWait"]
                    [] branch = "backoff" ->
                         [rec EXCEPT !.pc = "backoff",
                                     !.wakeAt = now + FloorTick(retryDelay(e, rec.attemptNumber))]
                    [] OTHER -> [rec EXCEPT !.pc = "failed", !.thrown = e]]
           /\ tokenCache' = IF branch = "refresh" THEN 0 ELSE tokenCache
           /\ authLog' = IF branch = "refresh"
                         THEN authLog \cup {AuthReq(c, TRUE, rec.token)}
                         ELSE authLog
    /\ UNCHANGED <<pollVars, now, issued, quotaStart>>

\* the forced token request succeeds, had the retry after it been left
\* uncounted
refreshIssuedUncounted(c) ==
    /\ call[c].pc = "refreshWait"
    /\ issued < MaxTokens
    /\ issued' = issued + 1
    /\ tokenCache' = issued + 1
    /\ call' = [call EXCEPT ![c] =
           SendOrGiveUp([@ EXCEPT !.token = issued + 1, !.tokenRefreshed = TRUE])]
    /\ UNCHANGED <<pollVars, now, authLog, rateLimitState, quotaStart>>

\* the forced token request succeeds: the request is retried with the new token
refreshIssued(c) ==
    /\ call[c].pc = "refreshWait"
    /\ issued < MaxTokens
    /\ issued' = issued + 1
    /\ tokenCache' = issued + 1
    /\ call' = [call EXCEPT ![c] =
           SendOrGiveUp([@ EXCEPT !.token = issued + 1, !.tokenRefreshed = TRUE,
                                  !.attemptNumber = @ + 1])]
    /\ UNCHANGED <<pollVars, now, authLog, rateLimitState, quotaStart>>

\* the refresh error handled like an error of the request itself: a 429 from
\* the token endpoint is backed off and retried
refreshFailedThenRetried(c, e) ==
    /\ call[c].pc = "refreshWait"
    /\ call' = [call EXCEPT ![c] =
           IF isRateLimitError(e) /\ call[c].attemptNumber < maxRetries
           THEN [@ EXCEPT !.pc = "backoff",
                          !.wakeAt = now + FloorTick(retryDelay(e, call[c].attemptNumber))]
           ELSE [@ EXCEPT !.pc = "failed", !.thrown = e]]
    /\ UNCHANGED <<pollVars, now, tokenCache, issued, authLog, rateLimitState, quotaStart>>

\* the forced token request fails: throw tokenError
refreshFailed(c, e) ==
    /\ call[c].pc = "refreshWait"
    /\ call' = [call EXCEPT ![c] = [@ EXCEPT !.pc = "failed", !.thrown = e]]
    /\ UNCHANGED <<pollVars, now, tokenCache, issued, authLog, rateLimitState, quotaStart>>

\* the sleep before a 429 retry is over
backoffOver(c) ==
    /\ call[c].pc = "backoff"
    /\ now >= call[c].wakeAt
    /\ call' = [call EXCEPT ![c] =
           SendOrGiveUp([@ EXCEPT !.attemptNumber = @ + 1, !.wakeAt = Absent])]
    /\ UNCHANGED <<pollVars, now, tokenCache, issued, authLog, rateLimitState, quotaStart>>

\* time passes
Tick ==
    /\ now < MaxTime
    /\ now' = now + TickMs
    /\ UNCHANGED <<reqVars, pollVars>>

(***************************************************************************)
(* JavaScript values that getAlerts receives as arguments: null, a number  *)
(* or a string (a cursor, an ISO timestamp).                               *)
(***************************************************************************)
Null == [t |-> "null", v |-> 0]
Num(n) == [t |-> "num", v |-> n]
Str(x) == [t |-> "str", v |-> x]

JsTruthy(a) == a.t = "str" \/ (a.t = "num" /\ a.v # 0)

(***************************************************************************)
(* The remote API: alert i was published at published[i].ts; a listing is  *)
(* newest first, and nextPage carries as its from-cursor the oldest alert  *)
(* of the page.  A to/from value the API never issued is ignored.          *)
(***************************************************************************)
ApiIds == 1 .. Len(published)

IsCursor(a) == a.t = "str" /\ a.v \in ApiIds

SetMax(S) == CHOOSE x \in S : \A y \in S : y <= x
SetMin(S) == CHOOSE x \in S : \A y \in S : x <= y

RECURSIVE Newest(_, _)
Newest(S, n) ==
    IF n = 0 \/ S = {} THEN <<>>
    ELSE <<SetMax(S)>> \o Newest(S \ {SetMax(S)}, n - 1)

Range(seq) == {seq[i] : i \in 1 .. Len(seq)}

ApiPage(q) ==
    LET pool == {i \in ApiIds : /\ IsCursor(q.from) => i < q.from.v
                                /\ IsCursor(q.to) => i > q.to.v}
        alerts == Newest(pool, q.pageSize)
    IN  [alerts |-> alerts,
         nextPage |-> IF Cardinality(pool) > q.pageSize
                      THEN Str(SetMin(Range(alerts))) ELSE Null]

(***************************************************************************)
(* getAlerts(options, toCursor, fromCursor, count).                        *)
(***************************************************************************)
getAlertsQuery(toCursor, fromCursor, count) ==
    [pageSize |-> IF JsTruthy(count) /\ count.t = "num" /\ count.v > MAX_PAGE_SIZE
                  THEN count.v ELSE MAX_PAGE_SIZE,
     to |-> IF JsTruthy(toCursor) /\ ~JsTruthy(count) THEN toCursor ELSE Null,
     from |-> IF JsTruthy(fromCursor) /\ ~JsTruthy(count) THEN fromCursor ELSE Null]

\* const statusCode = error.statusCode || (error.meta && error.meta.statusCode)
getAlertsStatusCode(e) ==
    IF Truthy(e.statusCode) THEN e.statusCode ELSE e.metaStatusCode

\* the catch block of getAlerts: an empty page for a 429, else the error again
getAlertsCatch(e) ==
    IF getAlertsStatusCode(e) = "n429" THEN "empty" ELSE "thrown"

\* the errors a page request ends with in this exploration, one of each kind
\* the callers of getAlerts tell apart: what requestWithDefaults throws once
\* it gives up (a transport error or a token error is handled like the 500)
FetchErrors == {E429(NoHeaders), E429Status, E500}

(***************************************************************************)
(* stateManager: the polling state and the alert cache.                    *)
(***************************************************************************)
EmptyPollingState == [lastPollTime |-> Absent, totalAlertsProcessed |-> 0]

resetPollingState == EmptyPollingState

updatePollingState(ps, lastPollTime, totalAlertsProcessed) ==
    [ps EXCEPT !.lastPollTime = lastPollTime,
               !.totalAlertsProcessed = totalAlertsProcessed]

\* addAlertsToCache, had it left an alert that is cached already in its place
RECURSIVE addAlertsToCacheInPlace(_, _)
addAlertsToCacheInPlace(cache, alerts) ==
    IF alerts = <<>> THEN cache
    ELSE LET a == Head(alerts)
             upserted == IF a \in {cache[i] : i \in 1 .. Len(cache)}
                         THEN cache ELSE Append(cache, a)
             kept == IF Len(upserted) > CacheMax
                     THEN SubSeq(upserted, Len(upserted) - CacheMax + 1, Len(upserted))
                     ELSE upserted
         IN  addAlertsToCacheInPlace(kept, Tail(alerts))

RECURSIVE addAlertsToCache(_, _)
addAlertsToCache(cache, alerts) ==
    IF alerts = <<>> THEN cache
    ELSE LET a == Head(alerts)
             upserted == Append(SelectSeq(cache, LAMBDA y : y # a), a)
             kept == IF Len(upserted) > CacheMax
                     THEN SubSeq(upserted, Len(upserted) - CacheMax + 1, Len(upserted))
                     ELSE upserted
         IN  addAlertsToCache(kept, Tail(alerts))

\* getCachedAlerts(listIds, sinceTimestamp) with no list filter: the cached
\* alerts newer than sinceTimestamp (all of them when it is null), newest first
getCachedAlerts(since) ==
    Newest({a \in Range(alertCache) : since = Absent \/ published[a].ts > since},
           Len(alertCache))

(***************************************************************************)
(* pollAlerts: one poll cycle.                                             *)
(***************************************************************************)
Cycles == 1 .. NCycles

IdleCycle ==
    [pc |-> "idle", isFirstPoll |-> FALSE, lastPollTimestamp |-> Absent, stateTotal |-> 0,
     totalAlertsProcessed |-> 0, pageCount |-> 0, query |-> getAlertsQuery(Null, Null, Null),
     page |-> <<>>, nextPage |-> Null, result |-> "none", hasMore |-> FALSE,
     error |-> "none", rateLimited |-> FALSE]

\* pollAlerts from its start to its first request, had it taken only the
\* first execution since the scheduler was set up for the first poll
NewCycleFirstOnce(ps) ==
    LET isFirstPoll == ps.lastPollTime = Absent /\ timers = <<>>
    IN  [IdleCycle EXCEPT
            !.pc = "fetch",
            !.isFirstPoll = isFirstPoll,
            !.lastPollTimestamp = ps.lastPollTime,
            !.stateTotal = ps.totalAlertsProcessed,
            !.pageCount = IF isFirstPoll THEN 0 ELSE 1,
            !.query = IF isFirstPoll
                      THEN getAlertsQuery(Null, Num(BootstrapCount), Null)
                      ELSE getAlertsQuery(Null, Null, Str(ps.lastPollTime))]

\* pollAlerts from its start to its first request
NewCycle(ps) ==
    LET isFirstPoll == ps.lastPollTime = Absent
    IN  [IdleCycle EXCEPT
            !.pc = "fetch",
            !.isFirstPoll = isFirstPoll,
            !.lastPollTimestamp = ps.lastPollTime,
            !.stateTotal = ps.totalAlertsProcessed,
            !.pageCount = IF isFirstPoll THEN 0 ELSE 1,
            !.query = IF isFirstPoll
                      THEN getAlertsQuery(Null, Num(BootstrapCount), Null)
                      ELSE getAlertsQuery(Null, Null, Str(ps.lastPollTime))]

\* the catch block, had it recorded the time of the failed poll
failCycleStamps(k, message) ==
    /\ cyc' = [cyc EXCEPT ![k] = [@ EXCEPT !.pc = "done", !.result = "failure",
                                           !.error = message,
                                           !.page = <<>>, !.nextPage = Null]]
    /\ pollingState' = updatePollingState(pollingState, now + 1,
                                          pollingState.totalAlertsProcessed)

\* the cycle ends in the catch block: {success: false, error: error.message};
\* message tells which call threw
failCycle(k, message) ==
    /\ cyc' = [cyc EXCEPT ![k] = [@ EXCEPT !.pc = "done", !.result = "failure",
                                           !.error = message,
                                           !.page = <<>>, !.nextPage = Null]]
    /\ UNCHANGED pollingState

\* the paging loop with the ceiling tested as pageCount <= maxPages
afterPageOneMore(k, rec, n, nextPage) ==
    LET continuePaging == ~rec.isFirstPoll /\ JsTruthy(nextPage) /\ n > 0
    IN  IF continuePaging /\ rec.pageCount <= maxPages
        THEN /\ cyc' = [cyc EXCEPT ![k] =
                    [rec EXCEPT !.pc = "fetch", !.pageCount = rec.pageCount + 1,
                                !.page = <<>>, !.nextPage = Null,
                                !.query = getAlertsQuery(nextPage, Null,
                                                         Str(rec.lastPollTimestamp))]]
             /\ UNCHANGED pollingState
        ELSE /\ cyc' = [cyc EXCEPT ![k] =
                    [rec EXCEPT !.pc = "done", !.result = "success",
                                !.page = <<>>, !.nextPage = Null,
                                !.hasMore = IF rec.isFirstPoll THEN JsTruthy(nextPage)
                                            ELSE continuePaging]]
             /\ pollingState' = updatePollingState(pollingState, now,
                                    rec.stateTotal + rec.totalAlertsProcessed)

\* the end of the cycle, had it left the polling state alone when the cycle
\* processed no alert
afterPageKeepsWatermark(k, rec, n, nextPage) ==
    LET continuePaging == ~rec.isFirstPoll /\ JsTruthy(nextPage) /\ n > 0
    IN  IF continuePaging /\ rec.pageCount < maxPages
        THEN /\ cyc' = [cyc EXCEPT ![k] =
                    [rec EXCEPT !.pc = "fetch", !.pageCount = rec.pageCount + 1,
                                !.page = <<>>, !.nextPage = Null,
                                !.query = getAlertsQuery(nextPage, Null,
                                                         Str(rec.lastPollTimestamp))]]
             /\ UNCHANGED pollingState
        ELSE /\ cyc' = [cyc EXCEPT ![k] =
                    [rec EXCEPT !.pc = "done", !.result = "success",
                                !.page = <<>>, !.nextPage = Null,
                                !.hasMore = IF rec.isFirstPoll THEN JsTruthy(nextPage)
                                            ELSE continuePaging]]
             /\ pollingState' = IF rec.totalAlertsProcessed = 0 THEN pollingState
                                ELSE updatePollingState(pollingState, now,
                                         rec.stateTotal + rec.totalAlertsProcessed)

\* the cycle, as rec, has dealt with a page of n alerts: it asks for the
\* next page or updates the polling state and returns {success: true}
afterPage(k, rec, n, nextPage) ==
    LET continuePaging == ~rec.isFirstPoll /\ JsTruthy(nextPage) /\ n > 0
    IN  IF continuePaging /\ rec.pageCount < maxPages
        THEN /\ cyc' = [cyc EXCEPT ![k] =
                    [rec EXCEPT !.pc = "fetch", !.pageCount = rec.pageCount + 1,
                                !.page = <<>>, !.nextPage = Null,
                                !.query = getAlertsQuery(nextPage, Null,
                                                         Str(rec.lastPollTimestamp))]]
             /\ UNCHANGED pollingState
        ELSE /\ cyc' = [cyc EXCEPT ![k] =
                    [rec EXCEPT !.pc = "done", !.result = "success",
                                !.page = <<>>, !.nextPage = Null,
                                !.hasMore = IF rec.isFirstPoll THEN JsTruthy(nextPage)
                                            ELSE continuePaging]]
             /\ pollingState' = updatePollingState(pollingState, now,
                                    rec.stateTotal + rec.totalAlertsProcessed)

\* the page request of cycle k is answered
fetchResponds(k) ==
    /\ cyc[k].pc = "fetch"
    /\ LET pg == ApiPage(cyc[k].query)
       IN  IF Len(pg.alerts) > 0
           THEN /\ cyc' = [cyc EXCEPT ![k] = [@ EXCEPT !.pc = "process",
                                                      !.page = pg.alerts,
                                                      !.nextPage = pg.nextPage]]
                /\ UNCHANGED pollingState
           ELSE afterPage(k, cyc[k], 0, pg.nextPage)
    /\ UNCHANGED <<reqVars, lookup, par, cacheAdds, retryCalc, pulse, now,
                   pollingInitialized, pollingInterval, timers, alertCache, published,
                   ingested, started, msg, lastGet>>

\* the page request of cycle k ends in error e
fetchFails(k, e) ==
    /\ cyc[k].pc = "fetch"
    /\ lastGet' = [err |-> e, outcome |-> getAlertsCatch(e)]
    /\ IF getAlertsCatch(e) = "empty"
       THEN afterPage(k, [cyc[k] EXCEPT !.rateLimited = TRUE], 0, Null)
       ELSE failCycle(k, "getAlerts")
    /\ UNCHANGED <<reqVars, lookup, par, cacheAdds, retryCalc, pulse, now,
                   pollingInitialized, pollingInterval, timers, alertCache, published,
                   ingested, started, msg>>

\* processAlerts resolves: the page is in the cache
processDone(k) ==
    /\ cyc[k].pc = "process"
    /\ alertCache' = addAlertsToCache(alertCache, cyc[k].page)
    /\ ingested' = ingested \cup Range(cyc[k].page)
    /\ afterPage(k, [cyc[k] EXCEPT !.totalAlertsProcessed = @ + Len(cyc[k].page)],
                 Len(cyc[k].page), cyc[k].nextPage)
    /\ UNCHANGED <<reqVars, lookup, par, cacheAdds, retryCalc, pulse, now,
                   pollingInitialized, pollingInterval, timers, published, started, msg,
                   lastGet>>

\* processAlerts rejects
processFails(k) ==
    /\ cyc[k].pc = "process"
    /\ failCycle(k, "processAlerts")
    /\ UNCHANGED <<reqVars, lookup, par, cacheAdds, retryCalc, pulse, now,
                   pollingInitialized, pollingInterval, timers, alertCache, published,
                   ingested, started, msg, lastGet>>

(***************************************************************************)
(* integration.js: the scheduler and the message handler.                  *)
(***************************************************************************)
\* the options a handler is called with: credentials set or not, and the
\* poll interval in seconds
Options(intervals) == [creds : BOOLEAN, pollInterval : intervals]

\* initializePolling(options), which skipped the test of the credentials
initializePollingUnguarded(options) ==
    IF pollingInitialized
    THEN UNCHANGED <<pollingInitialized, pollingInterval, timers, pollingState, started,
                     cyc>>
    ELSE /\ started < NCycles
         /\ pollingState' = resetPollingState
         /\ started' = started + 1
         /\ cyc' = [cyc EXCEPT ![started + 1] = NewCycle(resetPollingState)]
         /\ pollingInterval' = now + options.pollInterval * 1000
         /\ timers' = Append(timers, [due |-> now + options.pollInterval * 1000,
                                      period |-> options.pollInterval * 1000])
         /\ pollingInitialized' = TRUE

\* initializePolling(options)
initializePolling(options) ==
    IF pollingInitialized \/ ~options.creds
    THEN UNCHANGED <<pollingInitialized, pollingInterval, timers, pollingState, started,
                     cyc>>
    ELSE /\ started < NCycles
         /\ pollingState' = resetPollingState
         /\ started' = started + 1
         /\ cyc' = [cyc EXCEPT ![started + 1] = NewCycle(resetPollingState)]
         /\ pollingInterval' = now + options.pollInterval * 1000
         /\ timers' = Append(timers, [due |-> now + options.pollInterval * 1000,
                                      period |-> options.pollInterval * 1000])
         /\ pollingInitialized' = TRUE

\* an interval timer fires: its callback calls pollAlerts
timerFires ==
    /\ \E i \in 1 .. Len(timers) :
          /\ now >= timers[i].due
          /\ timers' = [timers EXCEPT ![i].due = @ + timers[i].period]
          /\ pollingInterval' = IF pollingInterval # Absent /\ i = Len(timers)
                                THEN timers[i].due + timers[i].period
                                ELSE pollingInterval
    /\ started < NCycles
    /\ started' = started + 1
    /\ cyc' = [cyc EXCEPT ![started + 1] = NewCycle(pollingState)]
    /\ UNCHANGED <<reqVars, lookup, par, cacheAdds, retryCalc, pulse, now,
                   pollingInitialized, pollingState, alertCache, published, ingested, msg,
                   lastGet>>

\* shutdown(): clearInterval(pollingInterval) stops the timer the handle names
shutdown ==
    /\ pollingInterval # Absent
    /\ timers' = SubSeq(timers, 1, Len(timers) - 1)
    /\ pollingInterval' = Absent
    /\ pollingInitialized' = FALSE
    /\ UNCHANGED <<reqVars, lookup, par, cacheAdds, retryCalc, pulse, now, pollingState,
                   alertCache, published, ingested, started, cyc, msg, lastGet>>

Msgs == 1 .. NMsgs

IdleMsg ==
    [pc |-> "idle", alertCount |-> Absent, cached |-> <<>>, rateLimited |-> FALSE,
     query |-> getAlertsQuery(Null, Null, Null), reply |-> "none", alerts |-> <<>>]

\* alerts.slice(0, alertCount) when a count was given
Sliced(alerts, alertCount) ==
    IF alertCount # Absent THEN SubSeq(alerts, 1, Min(alertCount, Len(alerts))) ELSE alerts

\* a message with an action other than getAlerts: polling is initialised
onMessageOther(options) ==
    /\ initializePolling(options)
    /\ UNCHANGED <<reqVars, lookup, par, cacheAdds, retryCalc, pulse, now, alertCache,
                   published, ingested, msg, lastGet>>

\* onMessage, action getAlerts, had it asked the API whenever a count was given
onMessageGetAlertsAlwaysAsks(m, alertCount, since, options) ==
    /\ msg[m].pc = "idle"
    /\ initializePolling(options)
    /\ LET alertFilterTimestamp ==
               IF alertCount # Absent THEN Absent
               ELSE IF since # Absent THEN since ELSE now
           alerts == getCachedAlerts(alertFilterTimestamp)
       IN  IF alertCount # Absent
           THEN msg' = [msg EXCEPT ![m] =
                    [@ EXCEPT !.pc = "fetch", !.alertCount = alertCount,
                              !.cached = alerts,
                              !.query = getAlertsQuery(Num(alertCount), Null, Null)]]
           ELSE msg' = [msg EXCEPT ![m] =
                    [@ EXCEPT !.pc = "done", !.alertCount = alertCount,
                              !.cached = alerts, !.reply = "ok",
                              !.alerts = Sliced(alerts, alertCount)]]
    /\ UNCHANGED <<reqVars, lookup, par, cacheAdds, retryCalc, pulse, now, alertCache,
                   published, ingested, lastGet>>

\* onMessage, action getAlerts, up to the callback or the API request;
\* alertCount and since are the payload's count and sinceTimestamp
onMessageGetAlerts(m, alertCount, since, options) ==
    /\ msg[m].pc = "idle"
    /\ initializePolling(options)
    /\ LET alertFilterTimestamp ==
               IF alertCount # Absent THEN Absent
               ELSE IF since # Absent THEN since ELSE now
           alerts == getCachedAlerts(alertFilterTimestamp)
       IN  IF alertCount # Absent /\ Len(alerts) < alertCount
           THEN msg' = [msg EXCEPT ![m] =
                    [@ EXCEPT !.pc = "fetch", !.alertCount = alertCount,
                              !.cached = alerts,
                              !.query = getAlertsQuery(Num(alertCount), Null, Null)]]
           ELSE msg' = [msg EXCEPT ![m] =
                    [@ EXCEPT !.pc = "done", !.alertCount = alertCount,
                              !.cached = alerts, !.reply = "ok",
                              !.alerts = Sliced(alerts, alertCount)]]
    /\ UNCHANGED <<reqVars, lookup, par, cacheAdds, retryCalc, pulse, now, alertCache,
                   published, ingested, lastGet>>

\* the API request of handler m is answered: the API's alerts replace the cached ones
msgResponds(m) ==
    /\ msg[m].pc = "fetch"
    /\ msg' = [msg EXCEPT ![m] =
           [@ EXCEPT !.pc = "done", !.reply = "ok",
                     !.alerts = Sliced(ApiPage(msg[m].query).alerts, msg[m].alertCount)]]
    /\ UNCHANGED <<reqVars, lookup, par, cacheAdds, retryCalc, pulse, now,
                   pollingInitialized, pollingInterval, timers, pollingState, alertCache,
                   published, ingested, started, cyc, lastGet>>

\* the API request of handler m ends in error e
msgFails(m, e) ==
    /\ msg[m].pc = "fetch"
    /\ lastGet' = [err |-> e, outcome |-> getAlertsCatch(e)]
    /\ LET rec == [msg[m] EXCEPT !.pc = "done", !.rateLimited = isRateLimitError(e)]
       IN  msg' = [msg EXCEPT ![m] =
               IF getAlertsCatch(e) = "empty"
               THEN [rec EXCEPT !.reply = "ok", !.alerts = <<>>]
               ELSE IF errorStatus(e) \in {"n429", "s429"}
               THEN [rec EXCEPT !.reply = "ok",
                                !.alerts = Sliced(rec.cached, rec.alertCount)]
               ELSE [rec EXCEPT !.reply = "error"]]
    /\ UNCHANGED <<reqVars, lookup, par, cacheAdds, retryCalc, pulse, now,
                   pollingInitialized, pollingInterval, timers, pollingState, alertCache,
                   published, ingested, started, cyc>>

(***************************************************************************)
(* getAlertById: the cache first, then one request for the alert.  Handler *)
(* l sends its request as call l of the request client.                    *)
(***************************************************************************)
Lookups == 1 .. NLookups

\* the payload's alertId: missing, or the id of an alert
LookupIds == {Absent} \cup (1 .. MaxAlerts)

\* what request.run resolves with: a status code and a body that is missing,
\* {alerts: [one]}, {alerts: []}, a bare alert object or anything else
NoResponse == [statusCode |-> Absent, body |-> "none"]
LookupResponses ==
    [statusCode : {200, 404}, body : {"none", "alerts1", "alerts0", "alert", "other"}]

IdleLookup ==
    [pc |-> "idle", alertId |-> Absent, hit |-> FALSE, resp |-> NoResponse, err |-> NoError,
     outcome |-> "none", alert |-> Absent]

\* getAlertById, after requestWithDefaults resolved with resp
getAlertByIdResult(resp) ==
    IF resp.statusCode = 404 THEN "null"
    ELSE IF resp.body # "none"
    THEN CASE resp.body = "alerts1" -> "alert"
           [] resp.body = "alerts0" -> "null"
           [] resp.body = "alert" -> "alert"
           [] OTHER -> "null"
    ELSE "null"

\* getAlertById's catch block, had it read error.statusCode only
getAlertByIdCatchStatusCodeOnly(e) ==
    IF e.statusCode = "n404" THEN "null" ELSE "throw"

\* getAlertById's catch block: a 404 is no error
getAlertByIdCatch(e) ==
    IF e.statusCode = "n404" \/ e.metaStatusCode = "n404" THEN "null" ELSE "throw"

\* onMessage, action getAlertById, had getAlertById not looked in the cache
onMessageGetAlertByIdUncached(l, alertId, options) ==
    /\ lookup[l].pc = "idle"
    /\ call[l].pc = "idle"
    /\ initializePolling(options)
    /\ IF alertId = Absent
       THEN /\ lookup' = [lookup EXCEPT ![l] = [@ EXCEPT !.pc = "done", !.outcome = "error"]]
            /\ UNCHANGED <<call, authLog>>
       ELSE /\ lookup' = [lookup EXCEPT ![l] = [@ EXCEPT !.pc = "fetch", !.alertId = alertId]]
            /\ IF tokenCache # 0
               THEN /\ call' = [call EXCEPT ![l] =
                           [@ EXCEPT !.pc = "rateCheck", !.token = tokenCache]]
                    /\ UNCHANGED authLog
               ELSE /\ call' = [call EXCEPT ![l] = [@ EXCEPT !.pc = "tokenWait"]]
                    /\ authLog' = authLog \cup {AuthReq(l, FALSE, 0)}
    /\ UNCHANGED <<now, tokenCache, issued, rateLimitState, quotaStart, pulse, par,
                   cacheAdds, retryCalc, alertCache, published, ingested, msg, lastGet>>

\* onMessage, action getAlertById, up to the callback or the first await of
\* requestWithDefaults: the payload is checked, then the cache is searched
onMessageGetAlertById(l, alertId, options) ==
    /\ lookup[l].pc = "idle"
    /\ call[l].pc = "idle"
    /\ initializePolling(options)
    /\ IF alertId = Absent
       THEN /\ lookup' = [lookup EXCEPT ![l] = [@ EXCEPT !.pc = "done", !.outcome = "error"]]
            /\ UNCHANGED <<call, authLog>>
       ELSE IF alertId \in Range(alertCache)
       THEN /\ lookup' = [lookup EXCEPT ![l] =
                   [@ EXCEPT !.pc = "done", !.alertId = alertId, !.hit = TRUE,
                             !.outcome = "alert", !.alert = alertId]]
            /\ UNCHANGED <<call, authLog>>
       ELSE /\ lookup' = [lookup EXCEPT ![l] = [@ EXCEPT !.pc = "fetch", !.alertId = alertId]]
            /\ IF tokenCache # 0
               THEN /\ call' = [call EXCEPT ![l] =
                           [@ EXCEPT !.pc = "rateCheck", !.token = tokenCache]]
                    /\ UNCHANGED authLog
               ELSE /\ call' = [call EXCEPT ![l] = [@ EXCEPT !.pc = "tokenWait"]]
                    /\ authLog' = authLog \cup {AuthReq(l, FALSE, 0)}
    /\ UNCHANGED <<now, tokenCache, issued, rateLimitState, quotaStart, pulse, par,
                   cacheAdds, retryCalc, alertCache, published, ingested, msg, lastGet>>

\* requestWithDefaults resolved with resp: the alert or null goes to the callback
lookupResponds(l, resp) ==
    /\ lookup[l].pc = "fetch"
    /\ call[l].pc = "done"
    /\ lookup' = [lookup EXCEPT ![l] =
           [@ EXCEPT !.pc = "done", !.resp = resp, !.outcome = getAlertByIdResult(resp),
                     !.alert = IF getAlertByIdResult(resp) = "alert"
                               THEN lookup[l].alertId ELSE Absent]]
    /\ UNCHANGED <<reqVars, pulse, par, cacheAdds, retryCalc, now, pollingInitialized,
                   pollingInterval, timers, pollingState, alertCache, published, ingested,
                   started, cyc, msg, lastGet>>

\* requestWithDefaults rejected: null or the error goes to the callback
lookupFails(l) ==
    /\ lookup[l].pc = "fetch"
    /\ call[l].pc = "failed"
    /\ lookup' = [lookup EXCEPT ![l] =
           [@ EXCEPT !.pc = "done", !.err = call[l].thrown,
                     !.outcome = IF getAlertByIdCatch(call[l].thrown) = "null"
                                 THEN "null" ELSE "error"]]
    /\ UNCHANGED <<reqVars, pulse, par, cacheAdds, retryCalc, now, pollingInitialized,
                   pollingInterval, timers, pollingState, alertCache, published, ingested,
                   started, cyc, msg, lastGet>>

(***************************************************************************)
(* createRequestsInParallel: the requests run in batches of at most        *)
(* maxConcurrentRequests, with a sleep of requestDelayMs between batches.  *)
(* Request j settles as "ok" or "err"; time is taken at the sleeps only.   *)
(***************************************************************************)
ParRequests == 1 .. MaxParRequests

\* options.maxConcurrentRequests || 5
maxConcurrentRequests(opt) == IF opt = 0 THEN DefaultConcurrent ELSE opt

\* options.requestDelayMs || 5000
requestDelayMs(opt) == IF opt = 0 THEN DefaultDelayMs ELSE opt

\* validateOptions: the values of the two options it lets pass
validMaxConcurrentRequests(v) == v >= 1 /\ v <= 10
validRequestDelayMs(v) == v >= 0

IdlePar ==
    [pc |-> "idle", n |-> 0, concurrentOpt |-> 0, delayOpt |-> 0, m |-> 0, delay |-> 0,
     i |-> 0,
     req |-> [j \in ParRequests |-> "new"], results |-> <<>>, errors |-> <<>>,
     batches |-> <<>>, sleeps |-> 0, settledAt |-> Absent, wakeAt |-> Absent,
     outcome |-> "none", thrown |-> Absent]

\* batch.map(fn => fn()): the requests of the batch that begins after index i start
StartBatch(rec, i) ==
    LET last == Min(i + rec.m, rec.n)
    IN  [rec EXCEPT !.pc = "batch", !.i = i,
                    !.req = [j \in ParRequests |->
                                IF j > i /\ j <= last THEN "inflight" ELSE rec.req[j]],
                    !.batches = Append(@, last - i)]

\* the end of the function, had it thrown the error recorded last
FinishWithLastError(rec) ==
    IF Len(rec.errors) > 0
    THEN [rec EXCEPT !.pc = "done", !.outcome = "thrown",
                     !.thrown = rec.errors[Len(rec.errors)]]
    ELSE [rec EXCEPT !.pc = "done", !.outcome = "returned"]

\* the end of the function: the first error is thrown, or the results returned
Finish(rec) ==
    IF Len(rec.errors) > 0
    THEN [rec EXCEPT !.pc = "done", !.outcome = "thrown", !.thrown = rec.errors[1]]
    ELSE [rec EXCEPT !.pc = "done", !.outcome = "returned"]

\* requestsInParallel is called with n requests: the first batch starts
requestsInParallel(n, concurrentOpt, delayOpt) ==
    /\ par.pc = "idle"
    /\ LET rec == [par EXCEPT !.n = n, !.concurrentOpt = concurrentOpt,
                              !.delayOpt = delayOpt,
                              !.m = maxConcurrentRequests(concurrentOpt),
                              !.delay = requestDelayMs(delayOpt)]
       IN  par' = IF n = 0 THEN Finish(rec) ELSE StartBatch(rec, 0)
    /\ UNCHANGED <<reqVars, now, pollingInitialized, pollingInterval, timers, pollingState,
                   alertCache, published, ingested, started, cyc, msg, lastGet, pulse,
                   lookup, cacheAdds, retryCalc>>

\* request j of the running batch is fulfilled or rejected
requestSettles(j, outcome) ==
    /\ par.pc = "batch"
    /\ par.req[j] = "inflight"
    /\ par' = [par EXCEPT !.req[j] = outcome]
    /\ UNCHANGED <<reqVars, now, pollingInitialized, pollingInterval, timers, pollingState,
                   alertCache, published, ingested, started, cyc, msg, lastGet, pulse,
                   lookup, cacheAdds, retryCalc>>

\* the indices of the running batch with the given outcome, in batch order
RECURSIVE Collected(_, _, _, _)
Collected(rec, j, last, outcome) ==
    IF j > last THEN <<>>
    ELSE (IF rec.req[j] = outcome THEN <<j>> ELSE <<>>)
         \o Collected(rec, j + 1, last, outcome)

\* Promise.allSettled resolved, had the sleep between batches been left out
batchSettledWithoutSleep ==
    /\ par.pc = "batch"
    /\ \A j \in ParRequests : par.req[j] # "inflight"
    /\ LET last == Min(par.i + par.m, par.n)
           rec == [par EXCEPT
                      !.results = @ \o Collected(par, par.i + 1, last, "ok"),
                      !.errors = @ \o Collected(par, par.i + 1, last, "err"),
                      !.settledAt = now]
       IN  par' = IF par.i + par.m < par.n
                  THEN StartBatch(rec, par.i + par.m)
                  ELSE Finish(rec)
    /\ UNCHANGED <<reqVars, now, pollingInitialized, pollingInterval, timers, pollingState,
                   alertCache, published, ingested, started, cyc, msg, lastGet, pulse,
                   lookup, cacheAdds, retryCalc>>

\* Promise.allSettled resolved: results and errors are collected in batch
\* order, then the function sleeps if requests are left, or ends
batchSettled ==
    /\ par.pc = "batch"
    /\ \A j \in ParRequests : par.req[j] # "inflight"
    /\ LET last == Min(par.i + par.m, par.n)
           rec == [par EXCEPT
                      !.results = @ \o Collected(par, par.i + 1, last, "ok"),
                      !.errors = @ \o Collected(par, par.i + 1, last, "err"),
                      !.settledAt = now]
       IN  par' = IF par.i + par.m < par.n
                  THEN [rec EXCEPT !.pc = "sleep", !.sleeps = @ + 1,
                                   !.wakeAt = now + par.delay]
                  ELSE Finish(rec)
    /\ UNCHANGED <<reqVars, now, pollingInitialized, pollingInterval, timers, pollingState,
                   alertCache, published, ingested, started, cyc, msg, lastGet, pulse,
                   lookup, cacheAdds, retryCalc>>

\* the timer of the sleep fires: the next batch starts
sleepOver ==
    /\ par.pc = "sleep"
    /\ now' = Max(now, par.wakeAt)
    /\ par' = StartBatch(par, par.i + par.m)
    /\ UNCHANGED <<reqVars, pollingInitialized, pollingInterval, timers, pollingState,
                   alertCache, published, ingested, started, cyc, msg, lastGet, pulse,
                   lookup, cacheAdds, retryCalc>>

(***************************************************************************)
(* requestsInParallel of the request client: every element of              *)
(* requestsOptions becomes a requestWithDefaults call, call c for the c-th *)
(* element; par holds the number of requests and the limit argument.       *)
(***************************************************************************)
ClientRequests == 1 .. NClientRequests

\* requestsOptions.map(async ...) : requestWithDefaults starts for each of
\* the n elements within the same turn, up to its getToken
requestsInParallelOfClient(n, limit) ==
    /\ par.pc = "idle"
    /\ \A c \in 1 .. n : call[c].pc = "idle"
    /\ par' = [par EXCEPT !.pc = "all", !.n = n, !.m = limit]
    /\ call' = [c \in Calls |->
                   IF c > n THEN call[c]
                   ELSE IF tokenCache # 0
                   THEN [call[c] EXCEPT !.pc = "rateCheck", !.token = tokenCache]
                   ELSE [call[c] EXCEPT !.pc = "tokenWait"]]
    /\ authLog' = IF tokenCache # 0 THEN authLog
                  ELSE authLog \cup {AuthReq(c, FALSE, 0) : c \in 1 .. n}
    /\ UNCHANGED <<now, tokenCache, issued, rateLimitState, quotaStart, pollingInitialized,
                   pollingInterval, timers, pollingState, alertCache, published, ingested,
                   started, cyc, msg, lastGet, pulse, lookup, cacheAdds, retryCalc>>

\* Promise.all(requestPromises) resolves: every call has returned or thrown,
\* and a thrown error was turned into a null result
promiseAllResolves ==
    /\ par.pc = "all"
    /\ \A c \in 1 .. par.n : call[c].pc \in {"done", "failed"}
    /\ par' = [par EXCEPT !.pc = "done", !.outcome = "returned",
                          !.results = [c \in 1 .. par.n |-> c]]
    /\ UNCHANGED <<reqVars, now, pollingInitialized, pollingInterval, timers, pollingState,
                   alertCache, published, ingested, started, cyc, msg, lastGet, pulse,
                   lookup, cacheAdds, retryCalc>>

\* the ids that add calls are made with
CacheIds == 1 .. (CacheMax + 1)

\* the alerts of one add call: one alert or two
AddBatches == {<<a>> : a \in CacheIds} \cup {<<a, b>> : a, b \in CacheIds}

\* processAlerts hands the alerts of a page to addAlertsToCache
addAlerts(alerts) ==
    /\ Len(cacheAdds) + Len(alerts) <= MaxAdds
    /\ alertCache' = addAlertsToCache(alertCache, alerts)
    /\ cacheAdds' = cacheAdds \o alerts
    /\ UNCHANGED <<reqVars, now, pollingInitialized, pollingInterval, timers, pollingState,
                   published, ingested, started, cyc, msg, lastGet, pulse, lookup, par,
                   retryCalc>>

(***************************************************************************)
(* The delay before a 429 retry, for any attempt number and any value of   *)
(* the x-ratelimit-reset header of the error.                              *)
(***************************************************************************)
\* the attempt numbers and the header values (in ms) the delay is taken for
AttemptNumbers == 0 .. MaxAttempt
ResetHeaders == {Absent, 0, 1000, TickMs, 3 * TickMs}

IdleRetryCalc == [attemptNumber |-> 0, reset |-> Absent, delay |-> Absent]

\* the catch block computes retryDelay for the error and the attempt number
computeRetryDelay ==
    /\ retryCalc.delay = Absent
    /\ retryCalc' = [retryCalc EXCEPT !.delay =
           retryDelay(E429([NoHeaders EXCEPT !.reset = retryCalc.reset]),
                      retryCalc.attemptNumber)]
    /\ UNCHANGED <<reqVars, now, pollingInitialized, pollingInterval, timers, pollingState,
                   alertCache, published, ingested, started, cyc, msg, lastGet, pulse, lookup,
                   par, cacheAdds>>

\* the API publishes an alert
publishAlert ==
    /\ Len(published) < MaxAlerts
    /\ published' = Append(published,
                           [ts |-> now, steady |-> pollingState.lastPollTime # Absent])
    /\ UNCHANGED <<reqVars, lookup, par, cacheAdds, retryCalc, pulse, now,
                   pollingInitialized, pollingInterval, timers, pollingState, alertCache,
                   ingested, started, cyc, msg, lastGet>>

(***************************************************************************)
(* The Pulse integration: its initializePolling awaits the first           *)
(* pollPulseAlerts before it sets the timer up, and its onMessage awaits   *)
(* initializePolling.  pollPulseAlerts fetches one page, processes it and  *)
(* adds its size to totalAlertsProcessed; the cursor it stores is not read *)
(* by a later poll.                                                        *)
(***************************************************************************)
PulseRuns == 1 .. NPulseRuns

IdlePulse == [pc |-> "idle", byInit |-> FALSE, period |-> 0, page |-> <<>>, result |-> "none"]

FreePulseRun == SetMin({r \in PulseRuns : pulse[r].pc = "idle"})

\* onMessage up to the await in initializePolling: the first poll starts
pulseOnMessage(options) ==
    /\ IF pollingInitialized \/ ~options.creds
       THEN UNCHANGED <<pollingState, pulse>>
       ELSE /\ \E r \in PulseRuns : pulse[r].pc = "idle"
            /\ pollingState' = resetPollingState
            /\ pulse' = [pulse EXCEPT ![FreePulseRun] =
                   [IdlePulse EXCEPT !.pc = "fetch", !.byInit = TRUE,
                                     !.period = options.pollInterval * 1000]]
    /\ UNCHANGED <<reqVars, lookup, par, cacheAdds, retryCalc, now, pollingInitialized,
                   pollingInterval, timers, alertCache, published, ingested, started, cyc,
                   msg, lastGet>>

\* pollPulseAlerts r returns rec; when initializePolling awaited it, that
\* goes on: setInterval, pollingInitialized = true
pulseReturns(r, rec) ==
    /\ pulse' = [pulse EXCEPT ![r] = [rec EXCEPT !.pc = "done", !.page = <<>>]]
    /\ IF rec.byInit
       THEN /\ timers' = Append(timers, [due |-> now + rec.period, period |-> rec.period])
            /\ pollingInterval' = now + rec.period
            /\ pollingInitialized' = TRUE
       ELSE UNCHANGED <<timers, pollingInterval, pollingInitialized>>

\* getPulseAlerts of run r is answered
pulseFetchResponds(r) ==
    /\ pulse[r].pc = "fetch"
    /\ LET pg == ApiPage(getAlertsQuery(Null, Null, Null))
       IN  IF Len(pg.alerts) > 0
           THEN /\ pulse' = [pulse EXCEPT ![r] = [@ EXCEPT !.pc = "process",
                                                          !.page = pg.alerts]]
                /\ UNCHANGED <<timers, pollingInterval, pollingInitialized, pollingState>>
           ELSE /\ pulseReturns(r, [pulse[r] EXCEPT !.result = "success"])
                /\ UNCHANGED pollingState
    /\ UNCHANGED <<reqVars, lookup, par, cacheAdds, retryCalc, now, alertCache, published,
                   ingested, started, cyc, msg, lastGet>>

\* getPulseAlerts of run r throws: the catch block returns {success: false}
pulseFetchFails(r) ==
    /\ pulse[r].pc = "fetch"
    /\ pulseReturns(r, [pulse[r] EXCEPT !.result = "failure"])
    /\ UNCHANGED <<reqVars, lookup, par, cacheAdds, retryCalc, now, pollingState,
                   alertCache, published, ingested, started, cyc, msg, lastGet>>

\* processAlerts of run r resolves
pulseProcessDone(r) ==
    /\ pulse[r].pc = "process"
    /\ alertCache' = addAlertsToCache(alertCache, pulse[r].page)
    /\ ingested' = ingested \cup Range(pulse[r].page)
    /\ pollingState' = [pollingState EXCEPT !.totalAlertsProcessed = @ + Len(pulse[r].page)]
    /\ pulseReturns(r, [pulse[r] EXCEPT !.result = "success"])
    /\ UNCHANGED <<reqVars, lookup, par, cacheAdds, retryCalc, now, published, started, cyc,
                   msg, lastGet>>

\* processAlerts of run r rejects
pulseProcessFails(r) ==
    /\ pulse[r].pc = "process"
    /\ pulseReturns(r, [pulse[r] EXCEPT !.result = "failure"])
    /\ UNCHANGED <<reqVars, lookup, par, cacheAdds, retryCalc, now, pollingState,
                   alertCache, published, ingested, started, cyc, msg, lastGet>>

\* an interval timer fires: its callback calls pollPulseAlerts
pulseTimerFires ==
    /\ \E r \in PulseRuns : pulse[r].pc = "idle"
    /\ \E i \in 1 .. Len(timers) :
          /\ now >= timers[i].due
          /\ timers' = [timers EXCEPT ![i].due = @ + timers[i].period]
          /\ pollingInterval' = IF pollingInterval # Absent /\ i = Len(timers)
                                THEN timers[i].due + timers[i].period
                                ELSE pollingInterval
    /\ pulse' = [pulse EXCEPT ![FreePulseRun] = [IdlePulse EXCEPT !.pc = "fetch"]]
    /\ UNCHANGED <<reqVars, lookup, par, cacheAdds, retryCalc, now, pollingInitialized,
                   pollingState, alertCache, published, ingested, started, cyc, msg,
                   lastGet>>

InitPollCore ==
    /\ pollingInitialized = FALSE
    /\ pollingInterval = Absent
    /\ timers = <<>>
    /\ pollingState = EmptyPollingState
    /\ alertCache = <<>>
    /\ published = <<>>
    /\ ingested = {}
    /\ started = 0
    /\ cyc = [k \in Cycles |-> IdleCycle]
    /\ msg = [m \in Msgs |-> IdleMsg]
    /\ lastGet = [err |-> NoError, outcome |-> "none"]
    /\ pulse = [r \in PulseRuns |-> IdlePulse]
    /\ lookup = [l \in Lookups |-> IdleLookup]
    /\ par = IdlePar
    /\ cacheAdds = <<>>

InitPollVars == InitPollCore /\ retryCalc = IdleRetryCalc

(***************************************************************************)
(* The request client under concurrent calls.                              *)
(***************************************************************************)
InitReq ==
    /\ now = 0
    /\ tokenCache = 0
    /\ issued = 0
    /\ authLog = {}
    /\ rateLimitState = DefaultRateLimitState
    /\ quotaStart = DefaultRateLimitState
    /\ call = [c \in Calls |-> IdleCall]
    /\ InitPollVars

\* the alerts endpoint of this exploration stays within its quota: it sends
\* no quota headers, so no call sleeps in checkRateLimit and the clock stands
ReqErrors == {E401, E429(NoHeaders), E500, ENet}

NextReq ==
    \/ \E c \in ReqCalls : startCall(c)
    \/ \E c \in ReqCalls : tokenIssued(c)
    \/ \E c \in ReqCalls, e \in AuthErrors : tokenFailed(c, e)
    \/ tokenCacheExpires
    \/ \E c \in ReqCalls : checkRateLimit(c)
    \/ \E c \in ReqCalls : responseOk(c, NoHeaders)
    \/ \E c \in ReqCalls, e \in ReqErrors : responseError(c, e)
    \/ \E c \in ReqCalls : refreshIssued(c)
    \/ \E c \in ReqCalls, e \in AuthErrors : refreshFailed(c, e)
    \/ \E c \in ReqCalls : backoffOver(c)

SpecReq == InitReq /\ [][NextReq]_vars

(***************************************************************************)
(* requestsInParallel of the request client: one call with up to           *)
(* NClientRequests requests and a limit argument, the default among them.  *)
(***************************************************************************)
ParallelLimits == {1, 2, DefaultParallelLimit}

NextClientPar ==
    \/ \E n \in 0 .. NClientRequests, l \in ParallelLimits : requestsInParallelOfClient(n, l)
    \/ \E c \in ClientRequests : tokenIssued(c)
    \/ \E c \in ClientRequests : checkRateLimit(c)
    \/ \E c \in ClientRequests : responseOk(c, NoHeaders)
    \/ \E c \in ClientRequests : responseError(c, E500)
    \/ promiseAllResolves

SpecClientPar == InitReq /\ [][NextClientPar]_vars

(***************************************************************************)
(* The rate limiter under a burst of calls: the calls enter checkRateLimit *)
(* one after another (call c is the c-th to enter) and no response arrives *)
(* meanwhile.                                                              *)
(***************************************************************************)
QuotaLimits == {1, 2, DefaultLimit}
QuotaResets == {Absent, TickMs, 2 * TickMs}

InitQuota ==
    /\ now = 0
    /\ tokenCache = 1
    /\ issued = 1
    /\ authLog = {AuthReq(1, FALSE, 0)}
    /\ \E l \in QuotaLimits, r \in QuotaResets :
           rateLimitState = [limit |-> l, remaining |-> l, resetAt |-> r]
    /\ quotaStart = rateLimitState
    /\ call = [c \in Calls |-> IdleCall]
    /\ InitPollVars

InTurn(c) == IF c = 1 THEN TRUE ELSE call[c - 1].calledAt # Absent

NextQuota ==
    \/ \E c \in Calls : InTurn(c) /\ startCall(c)
    \/ \E c \in Calls : checkRateLimit(c)
    \/ \E c \in Calls : wakeAfterReset(c)
    \/ \E c \in Calls : wakeAfterWindow(c)
    \/ Tick

SpecQuota == InitQuota /\ [][NextQuota]_vars

(***************************************************************************)
(* The quota state under concurrent calls whose responses carry quota      *)
(* headers: none, a used-up quota, or a quota of which one request is used.*)
(***************************************************************************)
QuotaHeaders == {NoHeaders, ExhaustedHeaders, FreshHeaders}

NextHdr ==
    \/ \E c \in ReqCalls : startCall(c)
    \/ \E c \in ReqCalls : checkRateLimit(c)
    \/ \E c \in ReqCalls : wakeAfterReset(c)
    \/ \E c \in ReqCalls : wakeAfterWindow(c)
    \/ \E c \in ReqCalls, h \in QuotaHeaders : responseOk(c, h)
    \/ \E c \in ReqCalls, h \in QuotaHeaders : responseError(c, E500With(h))
    \/ Tick

SpecHdr == InitQuota /\ [][NextHdr]_vars

(***************************************************************************)
(* The scheduler, the poll cycles and the getAlerts handler.  A page       *)
(* request is taken by its outcome: the response, or the error             *)
(* requestWithDefaults gives up with.                                      *)
(***************************************************************************)
InitPoll ==
    /\ now = 0
    /\ tokenCache = 0
    /\ issued = 0
    /\ authLog = {}
    /\ rateLimitState = DefaultRateLimitState
    /\ quotaStart = DefaultRateLimitState
    /\ call = [c \in Calls |-> IdleCall]
    /\ InitPollVars

NextPoll ==
    \/ \E o \in Options({pollInterval}) : onMessageOther(o)
    \/ timerFires
    \/ shutdown
    \/ \E k \in Cycles : fetchResponds(k)
    \/ \E k \in Cycles, e \in FetchErrors : fetchFails(k, e)
    \/ \E k \in Cycles : processDone(k)
    \/ \E k \in Cycles : processFails(k)
    \/ publishAlert
    \/ Tick

SpecPoll == InitPoll /\ [][NextPoll]_vars

(***************************************************************************)
(* The getAlerts handler beside the first poll cycle: no timer tick and no *)
(* shutdown occur, and the API holds its alerts from the start.            *)
(***************************************************************************)
MsgCounts == {Absent, 1, 2, 3}
MsgSinces == {Absent, 0}

InitMsg ==
    /\ now = TickMs
    /\ tokenCache = 0
    /\ issued = 0
    /\ authLog = {}
    /\ rateLimitState = DefaultRateLimitState
    /\ quotaStart = DefaultRateLimitState
    /\ call = [c \in Calls |-> IdleCall]
    /\ pollingInitialized = FALSE
    /\ pollingInterval = Absent
    /\ timers = <<>>
    /\ pollingState = EmptyPollingState
    /\ alertCache = <<>>
    /\ \E n \in 0 .. MaxAlerts :
           published = [i \in 1 .. n |-> [ts |-> IF i = 1 THEN 0 ELSE TickMs, steady |-> FALSE]]
    /\ ingested = {}
    /\ started = 0
    /\ cyc = [k \in Cycles |-> IdleCycle]
    /\ msg = [m \in Msgs |-> IdleMsg]
    /\ lastGet = [err |-> NoError, outcome |-> "none"]
    /\ pulse = [r \in PulseRuns |-> IdlePulse]
    /\ lookup = [l \in Lookups |-> IdleLookup]
    /\ par = IdlePar
    /\ cacheAdds = <<>>
    /\ retryCalc = IdleRetryCalc

NextMsg ==
    \/ \E m \in Msgs, n \in MsgCounts, t \in MsgSinces, o \in Options({pollInterval}) :
           onMessageGetAlerts(m, n, t, o)
    \/ \E m \in Msgs : msgResponds(m)
    \/ \E m \in Msgs, e \in FetchErrors : msgFails(m, e)
    \/ \E k \in Cycles : fetchResponds(k)
    \/ \E k \in Cycles, e \in FetchErrors : fetchFails(k, e)
    \/ \E k \in Cycles : processDone(k)
    \/ \E k \in Cycles : processFails(k)

SpecMsg == InitMsg /\ [][NextMsg]_vars

(***************************************************************************)
(* The getAlerts handler while the scheduler runs: cycles fill the cache   *)
(* with the alerts the API publishes, and messages ask for alerts by count *)
(* or by timestamp.                                                        *)
(***************************************************************************)
ServeMsgs == 1 .. NServeMsgs

NextServe ==
    \/ \E o \in Options({pollInterval}) : onMessageOther(o)
    \/ \E m \in ServeMsgs, n \in MsgCounts, t \in MsgSinces, o \in Options({pollInterval}) :
           onMessageGetAlerts(m, n, t, o)
    \/ \E m \in ServeMsgs : msgResponds(m)
    \/ \E m \in ServeMsgs, e \in FetchErrors : msgFails(m, e)
    \/ timerFires
    \/ \E k \in Cycles : fetchResponds(k)
    \/ \E k \in Cycles : processDone(k)
    \/ publishAlert
    \/ Tick

SpecServe == InitPoll /\ [][NextServe]_vars

(***************************************************************************)
(* Messages while clientId or clientSecret is missing.                     *)
(***************************************************************************)
NoCredentials == {o \in Options({pollInterval}) : ~o.creds}

NextNoCreds ==
    \/ \E o \in NoCredentials : onMessageOther(o)
    \/ \E m \in Msgs, n \in MsgCounts, t \in MsgSinces, o \in NoCredentials :
           onMessageGetAlerts(m, n, t, o)
    \/ \E m \in Msgs, e \in FetchErrors : msgFails(m, e)

SpecNoCreds == InitMsg /\ [][NextNoCreds]_vars

(***************************************************************************)
(* The getAlertById handler beside the first poll cycle.  The API answers  *)
(* the alert request with a body of any shape, with a 404, with a 500 or   *)
(* not at all.                                                             *)
(***************************************************************************)
LookupErrors == {E404, E404Code, E500, ENet}

NextLookup ==
    \/ \E l \in Lookups, a \in LookupIds, o \in Options({pollInterval}) :
           onMessageGetAlertById(l, a, o)
    \/ \E l \in Lookups : tokenIssued(l)
    \/ \E l \in Lookups, e \in AuthErrors : tokenFailed(l, e)
    \/ \E l \in Lookups : checkRateLimit(l)
    \/ \E l \in Lookups : responseOk(l, NoHeaders)
    \/ \E l \in Lookups, e \in LookupErrors : responseError(l, e)
    \/ \E l \in Lookups, resp \in LookupResponses : lookupResponds(l, resp)
    \/ \E l \in Lookups : lookupFails(l)
    \/ \E k \in Cycles : fetchResponds(k)
    \/ \E k \in Cycles, e \in FetchErrors : fetchFails(k, e)
    \/ \E k \in Cycles : processDone(k)
    \/ \E k \in Cycles : processFails(k)

SpecLookup == InitMsg /\ [][NextLookup]_vars

(***************************************************************************)
(* One requestsInParallel run, for every number of requests, every cap and *)
(* every assignment of outcomes to the requests.                           *)
(***************************************************************************)
ConcurrentOpts == 0 .. MaxConcurrentOpt
DelayOpts == {0, TickMs}

NextPar ==
    \/ \E n \in 0 .. MaxParRequests, c \in ConcurrentOpts, d \in DelayOpts :
           requestsInParallel(n, c, d)
    \/ \E j \in ParRequests, o \in {"ok", "err"} : requestSettles(j, o)
    \/ batchSettled
    \/ sleepOver

SpecPar == InitPoll /\ [][NextPar]_vars

(***************************************************************************)
(* The alert cache under every sequence of add calls.                      *)
(***************************************************************************)
NextCache == \E alerts \in AddBatches : addAlerts(alerts)

SpecCache == InitPoll /\ [][NextCache]_vars

(***************************************************************************)
(* The retry delay as a function of its inputs.                            *)
(***************************************************************************)
InitDelay ==
    /\ now = 0
    /\ tokenCache = 0
    /\ issued = 0
    /\ authLog = {}
    /\ rateLimitState = DefaultRateLimitState
    /\ quotaStart = DefaultRateLimitState
    /\ call = [c \in Calls |-> IdleCall]
    /\ InitPollCore
    /\ \E a \in AttemptNumbers, r \in ResetHeaders :
           retryCalc = [attemptNumber |-> a, reset |-> r, delay |-> Absent]

NextDelay == computeRetryDelay

SpecDelay == InitDelay /\ [][NextDelay]_vars

(***************************************************************************)
(* The scheduler of the Pulse integration.                                 *)
(***************************************************************************)
NextPulse ==
    \/ \E o \in Options({pollInterval}) : pulseOnMessage(o)
    \/ \E r \in PulseRuns : pulseFetchResponds(r)
    \/ \E r \in PulseRuns : pulseFetchFails(r)
    \/ \E r \in PulseRuns : pulseProcessDone(r)
    \/ \E r \in PulseRuns : pulseProcessFails(r)
    \/ pulseTimerFires
    \/ shutdown
    \/ publishAlert
    \/ Tick

SpecPulse == InitPoll /\ [][NextPulse]_vars

(***************************************************************************)
(* The scheduler under any poll interval the options can carry.            *)
(***************************************************************************)
PollIntervals == {10, pollInterval, 60}

NextInterval ==
    \/ \E o \in Options(PollIntervals) : onMessageOther(o)
    \/ timerFires
    \/ shutdown
    \/ \E k \in Cycles : fetchResponds(k)
    \/ \E k \in Cycles, e \in FetchErrors : fetchFails(k, e)
    \/ Tick

SpecInterval == InitPoll /\ [][NextInterval]_vars

(***************************************************************************)
(* Properties of the request client.                                       *)
(***************************************************************************)
ForcedRefreshes == {a \in authLog : a.forced}

\* C2: calls that hold the same token and each receive a 401 cause one token
\* request between them, not one each.
C2_SingleFlightRefresh ==
    \A a, b \in ForcedRefreshes : a.stale = b.stale => a = b

Finished(c) == call[c].pc \in {"done", "failed"}

\* C8: a call that refreshed the token after a 401 has re-sent the request
\* with the new token by the time it ends, whatever the attempt counter was,
\* and no call forces more than one refresh.
C8_RefreshThenResend ==
    \A c \in Calls :
        /\ (Finished(c) /\ call[c].tokenRefreshed) => call[c].sentAfterRefresh
        /\ Cardinality({a \in ForcedRefreshes : a.by = c}) <= 1

\* C9: when the forced token request fails, the call ends at once with the
\* token error: no request is sent, no backoff is entered, and the call
\* stays failed.
C9_RefreshFailureFailsFast ==
    [][\A c \in Calls :
          /\ (call[c].pc = "refreshWait" /\ call'[c].pc # "refreshWait"
                  /\ ~call'[c].tokenRefreshed)
               => /\ call'[c].pc = "failed"
                  /\ call'[c].thrown \in AuthErrors
                  /\ call'[c].sends = call[c].sends
                  /\ call'[c].attemptNumber = call[c].attemptNumber
          /\ call[c].pc = "failed" => call'[c] = call[c]]_vars

\* a refresh after a 401 failed with a 429 of the token endpoint while
\* retries were left, and the call has failed with that error
C9_Witness ==
    \E c \in Calls :
        /\ call[c].pc = "failed"
        /\ call[c].thrown = EAuth429
        /\ isUnauthorizedError(call[c].lastError)
        /\ call[c].attemptNumber < maxRetries

\* C12: getToken answers from the cache without a token request when a
\* token is cached and no refresh is forced; a forced refresh evicts the
\* cached token and sends exactly one token request; a failed token request
\* is thrown to the caller with no further token request, caches nothing,
\* and with no other caller about leaves the cache empty.
C12_GetTokenCacheAndRefresh ==
    [][\A c \in Calls :
          /\ (call[c].pc = "idle" /\ call'[c].pc # "idle" /\ tokenCache # 0)
               => /\ call'[c].token = tokenCache
                  /\ call'[c].pc = "rateCheck"
                  /\ authLog' = authLog
                  /\ tokenCache' = tokenCache
          /\ (call[c].pc = "idle" /\ call'[c].pc # "idle" /\ tokenCache = 0)
               => /\ call'[c].pc = "tokenWait"
                  /\ authLog' = authLog \cup {AuthReq(c, FALSE, 0)}
          /\ (call[c].pc = "inflight" /\ call'[c].pc = "refreshWait")
               => /\ tokenCache' = 0
                  /\ authLog' \ authLog = {AuthReq(c, TRUE, call[c].token)}
          /\ (call[c].pc \in {"tokenWait", "refreshWait"} /\ call'[c].pc = "failed"
                  /\ issued' = issued)
               => /\ call'[c].thrown \in AuthErrors
                  /\ authLog' = authLog
                  /\ tokenCache' = tokenCache
                  /\ (\A d \in Calls \ {c} : call[d].pc = "idle") => tokenCache' = 0]_vars

\* a call took its token from the cache without a token request of its own,
\* was answered 401, forced a refresh, and that token request failed: the
\* call has failed with the token error and no token is cached
C12_Witness ==
    \E c \in Calls :
        /\ call[c].token # 0
        /\ AuthReq(c, FALSE, 0) \notin authLog
        /\ AuthReq(c, TRUE, call[c].token) \in authLog
        /\ call[c].pc = "failed"
        /\ call[c].thrown \in AuthErrors
        /\ tokenCache = 0

(***************************************************************************)
(* Properties of the rate limiter.                                         *)
(***************************************************************************)
RECURSIVE SumSends(_)
SumSends(S) ==
    IF S = {} THEN 0
    ELSE LET c == CHOOSE x \in S : TRUE
         IN  call[c].sends + SumSends(S \ {c})

\* C11: the requests sent to the API within one 30-second interval, retry
\* attempts included, number at most `limit` (the clock does not advance in
\* the runs this is checked on: all requests fall into one interval).
C11_AtMostLimitPerWindow ==
    (\A c \in Calls : call[c].calledAt \in {Absent, now}) =>
        SumSends(Calls) <= rateLimitState.limit

\* C10: from a full quota the first `limit` calls of checkRateLimit return
\* without sleeping, and the next call has not returned before the reset
\* time known at the start or, when none was known, before windowMs has
\* passed since it was called.
C10_BurstThenWait ==
    \A c \in Calls :
        call[c].calledAt # Absent =>
            /\ c <= quotaStart.limit => ~call[c].slept
            /\ (c = quotaStart.limit + 1 /\ call[c].pc = "inflight") =>
                   IF quotaStart.resetAt # Absent
                   THEN now >= quotaStart.resetAt
                   ELSE now >= call[c].calledAt + windowMs

\* with the default quota and no reset time known, the seventh call slept
\* the window and has returned
C10_Witness ==
    /\ quotaStart = DefaultRateLimitState
    /\ call[DefaultLimit + 1].slept
    /\ call[DefaultLimit + 1].pc = "inflight"
    /\ \A c \in 1 .. DefaultLimit : call[c].pc = "inflight" /\ ~call[c].slept

(***************************************************************************)
(* Properties of the poll scheduler and of the poll cycle.                 *)
(***************************************************************************)
InProgress(k) == cyc[k].pc \in {"fetch", "process"}

\* C1: at most one poll cycle is in progress at any time.
C1_AtMostOneCycleInProgress ==
    Cardinality({k \in Cycles : InProgress(k)}) <= 1

\* C3: once set, lastPollTime is never unset and never decreases.
C3_WatermarkOnlyAdvances ==
    [][pollingState.lastPollTime # Absent =>
          /\ pollingState'.lastPollTime # Absent
          /\ pollingState'.lastPollTime >= pollingState.lastPollTime]_vars

\* C4: a cycle that ends on an error ends with {success: false, error}, and
\* the step that ends it leaves lastPollTime and totalAlertsProcessed as they
\* were; a cycle ends in no other way than success or failure.
C4_FailedCycleLeavesState ==
    [][\A k \in Cycles :
          (InProgress(k) /\ cyc'[k].pc = "done") =>
              /\ cyc'[k].result \in {"success", "failure"}
              /\ cyc'[k].result = "failure" => pollingState' = pollingState]_vars

\* a cycle has failed after an earlier one had set lastPollTime and counted
\* an alert, and both values stand
C4_Witness ==
    \E k \in Cycles :
        /\ cyc[k].pc = "done"
        /\ cyc[k].result = "failure"
        /\ ~cyc[k].isFirstPoll
        /\ pollingState.lastPollTime = cyc[k].lastPollTimestamp
        /\ pollingState.totalAlertsProcessed > 0

\* C7: the watermark never lies beyond an alert that was published after
\* the bootstrap poll and has not been fetched into the cache.
C7_WatermarkBehindUnfetched ==
    \A i \in ApiIds :
        (/\ published[i].steady
         /\ pollingState.lastPollTime # Absent
         /\ published[i].ts < pollingState.lastPollTime) => i \in ingested

\* C13: the bootstrap cycle asks for the newest alerts with no cursor in its
\* request.
C13_BootstrapWithoutCursor ==
    \A k \in Cycles :
        (cyc[k].isFirstPoll /\ cyc[k].pc # "idle") =>
            /\ cyc[k].query.from = Null
            /\ cyc[k].query.to = Null

\* C14: a steady-state cycle asks for a further page only after a page that
\* held an alert not older than the watermark the cycle started from.
C14_StopAfterPageWithNothingNew ==
    [][\A k \in Cycles :
          (~cyc[k].isFirstPoll /\ cyc[k].pc = "process" /\ cyc'[k].pc = "fetch") =>
              \E i \in Range(cyc[k].page) :
                  published[i].ts >= cyc[k].lastPollTimestamp]_vars

\* C15: a cycle never fetches more than maxPages pages, and a steady-state
\* cycle that has processed the page at the ceiling ends as a success with
\* lastPollTime set to the time of its end.
C15_PageCeiling ==
    [][\A k \in Cycles :
          /\ cyc'[k].pageCount <= maxPages
          /\ (/\ cyc[k].pc = "process"
              /\ cyc[k].pageCount = maxPages
              /\ cyc'[k].pc # "process"
              /\ cyc'[k].error # "processAlerts")
               => /\ cyc'[k].pc = "done"
                  /\ cyc'[k].result = "success"
                  /\ pollingState'.lastPollTime = now]_vars

\* a steady-state cycle has ended at the ceiling with a further page on offer
C15_Witness ==
    \E k \in Cycles :
        /\ cyc[k].pc = "done"
        /\ cyc[k].result = "success"
        /\ ~cyc[k].isFirstPoll
        /\ cyc[k].pageCount = maxPages
        /\ cyc[k].hasMore
        /\ pollingState.lastPollTime # Absent

\* C16: while the credentials are missing, polling is never set up: no
\* timer exists and no poll cycle has started, whatever messages arrive.
C16_NoPollingWithoutCredentials ==
    /\ ~pollingInitialized
    /\ pollingInterval = Absent
    /\ timers = <<>>
    /\ started = 0
    /\ \A k \in Cycles : cyc[k].pc = "idle"

\* messages have been handled without credentials: one answered from the
\* cache, one that went to the API and got its error back
C16_Witness ==
    /\ ~pollingInitialized
    /\ \E m \in Msgs : msg[m].pc = "done" /\ msg[m].reply = "ok"
    /\ \E m \in Msgs : msg[m].pc = "done" /\ msg[m].reply = "error"

\* C17: one interval timer runs while polling is initialised and none
\* otherwise.
C17_OneTimerWhileInitialised ==
    Len(timers) = IF pollingInitialized THEN 1 ELSE 0

\* C18: no interval timer has a period below the minimum of 30 seconds.
C18_IntervalAtLeastMinimum ==
    \A i \in 1 .. Len(timers) : timers[i].period >= pollInterval * 1000

(***************************************************************************)
(* Properties of getAlerts and of the getAlerts message handler.           *)
(***************************************************************************)
\* C5: a page request that ends in a 429, in whichever form the client
\* recognises it, gives the empty page; any other error is thrown again.
C5_RateLimitGivesEmptyPage ==
    lastGet.outcome # "none" =>
        (lastGet.outcome = "empty" <=> isRateLimitError(lastGet.err))

\* C6: a getAlerts message with a count whose API request was rate-limited
\* is answered with success, and with no fewer alerts than the cache held
\* for it.
C6_RateLimitedReplyHoldsCached ==
    \A m \in Msgs :
        (msg[m].pc = "done" /\ msg[m].rateLimited) =>
            /\ msg[m].reply = "ok"
            /\ Len(msg[m].alerts) >= Len(Sliced(msg[m].cached, msg[m].alertCount))

(***************************************************************************)
(* C19: getAlertById for an alert id that is in the cache returns the      *)
(* cached alert and makes no network call: the step sends no token request *)
(* and no alert request, and leaves the quota state as it was.             *)
(***************************************************************************)
C19_CacheHitWithoutNetwork ==
    [][\A l \in Lookups :
          (/\ lookup[l].pc = "idle"
           /\ lookup'[l].pc # "idle"
           /\ lookup'[l].alertId \in Range(alertCache))
          => /\ lookup'[l].pc = "done"
             /\ lookup'[l].outcome = "alert"
             /\ lookup'[l].alert = lookup'[l].alertId
             /\ call' = call
             /\ authLog' = authLog
             /\ tokenCache' = tokenCache
             /\ issued' = issued
             /\ rateLimitState' = rateLimitState]_vars

\* a lookup was answered from the cache while no token was cached, and
\* another one, for an alert the cache did not hold, went to the API
C19_Witness ==
    \E l, m \in Lookups :
        /\ lookup[l].hit
        /\ lookup[l].outcome = "alert"
        /\ call[l] = IdleCall
        /\ tokenCache = 0
        /\ lookup[m].pc = "fetch"

C21_ApiOnlyWhenCacheFallsShort ==
    [][\A m \in Msgs :
          /\ (msg[m].pc = "idle" /\ msg'[m].pc # "idle")
             => /\ msg'[m].pc = "fetch"
                   <=> /\ msg'[m].alertCount # Absent
                       /\ Cardinality(Range(alertCache)) < msg'[m].alertCount
                /\ msg'[m].pc = "done"
                   => /\ msg'[m].reply = "ok"
                      /\ Range(msg'[m].alerts) \subseteq Range(alertCache)
          /\ (msg'[m].pc = "done" /\ msg'[m].reply = "ok" /\ msg'[m].alertCount # Absent)
             => Len(msg'[m].alerts) <= msg'[m].alertCount]_vars

\* a message asked for one alert while the cache held two and was answered
\* from the cache with one
C21_Witness ==
    \E m \in Msgs :
        /\ msg[m].pc = "done" /\ msg[m].reply = "ok" /\ msg[m].alertCount = 1
        /\ Len(msg[m].cached) = 2 /\ Len(msg[m].alerts) = 1

(***************************************************************************)
(* C22: an alert that an on-demand request fetched from the API is in the  *)
(* shared cache once the request has been answered, so that the same       *)
(* request is served from the cache the next time.                         *)
(***************************************************************************)
C22_FetchedAlertIsCached ==
    [][\A l \in Lookups :
          (lookup[l].pc = "fetch" /\ lookup'[l].pc = "done" /\ lookup'[l].outcome = "alert")
          => lookup'[l].alert \in Range(alertCache')]_vars

(***************************************************************************)
(* C23: requestsInParallel with n requests and cap m runs ceil(n/m)        *)
(* batches, each of m requests but the last, which takes the rest; at most *)
(* m requests are in flight; a batch starts only when the batch before it  *)
(* has settled and the delay has passed since; and the function sleeps     *)
(* once between two batches, never after the last.                         *)
(***************************************************************************)
CeilDiv(n, m) == (n + m - 1) \div m

InFlight(rec) == {j \in ParRequests : rec.req[j] = "inflight"}

C23_BatchesAndSleeps ==
    [][/\ Cardinality(InFlight(par')) <= par'.m
       /\ \A b \in 1 .. Len(par'.batches) :
             par'.batches[b] = IF b < CeilDiv(par'.n, par'.m)
                               THEN par'.m
                               ELSE par'.n - par'.m * (CeilDiv(par'.n, par'.m) - 1)
       /\ par'.pc = "done"
          => /\ Len(par'.batches) = CeilDiv(par'.n, par'.m)
             /\ par'.sleeps = IF par'.n = 0 THEN 0 ELSE CeilDiv(par'.n, par'.m) - 1
       /\ (Len(par.batches) >= 1 /\ Len(par'.batches) > Len(par.batches))
          => /\ InFlight(par) = {}
             /\ \A j \in 1 .. par'.i : par.req[j] \in {"ok", "err"}
             /\ par.sleeps = Len(par.batches)
             /\ now' >= par.settledAt + par.delay]_vars

\* seven requests with a cap of three ran as batches of 3, 3 and 1 with two sleeps
C23_Witness ==
    /\ par.pc = "done"
    /\ par.n = 7 /\ par.m = 3
    /\ par.batches = <<3, 3, 1>>
    /\ par.sleeps = 2

(***************************************************************************)
(* C24: in requestsInParallel a rejected request takes nothing from the    *)
(* others: every request is started and settles; and when some request was *)
(* rejected the call throws the first error in batch order, and returns    *)
(* the results only when none was.                                         *)
(***************************************************************************)
Rejected(rec) == {j \in 1 .. rec.n : rec.req[j] = "err"}

C24_FirstErrorSurfaces ==
    par.pc = "done" =>
        /\ \A j \in 1 .. par.n : par.req[j] \in {"ok", "err"}
        /\ Range(par.results) = {j \in 1 .. par.n : par.req[j] = "ok"}
        /\ IF Rejected(par) # {}
           THEN par.outcome = "thrown" /\ par.thrown = SetMin(Rejected(par))
           ELSE par.outcome = "returned" /\ Len(par.results) = par.n

\* request 2 was rejected beside two fulfilled ones of its batch, request 5
\* was rejected in the next batch, and the call threw the error of request 2
C24_Witness ==
    /\ par.pc = "done"
    /\ par.m = 3
    /\ par.req[1] = "ok" /\ par.req[2] = "err" /\ par.req[3] = "ok"
    /\ par.req[5] = "err"
    /\ par.thrown = 2

(***************************************************************************)
(* C25: after every sequence of add calls the cache holds at most CacheMax *)
(* alerts, each once, and they are the CacheMax alert ids that were added  *)
(* last, an id added again counting from its last addition.                *)
(***************************************************************************)
\* the k distinct ids that occur last in log
RECURSIVE MostRecent(_, _, _)
MostRecent(log, k, acc) ==
    IF k = 0 \/ log = <<>> THEN acc
    ELSE LET a == log[Len(log)]
             front == SubSeq(log, 1, Len(log) - 1)
         IN  IF a \in acc THEN MostRecent(front, k, acc)
             ELSE MostRecent(front, k - 1, acc \cup {a})

C26_RefreshKeepsRetryBudget ==
    \A c \in Calls :
        (/\ call[c].pc = "failed"
         /\ call[c].thrown.src = "api"
         /\ isRateLimitError(call[c].thrown))
        => call[c].sends - (IF call[c].sentAfterRefresh THEN 1 ELSE 0) = maxRetries + 1

(***************************************************************************)
(* C27: every request.run of requestWithDefaults, the first and each       *)
(* re-send after a token refresh or after a 429, follows a checkRateLimit  *)
(* call of its own.                                                        *)
(***************************************************************************)
C27_EverySendAfterQuotaCheck ==
    [][\A c \in Calls :
          call'[c].sends > call[c].sends
          => call[c].pc \in {"rateCheck", "quotaSleepReset", "quotaSleepWindow"}]_vars

(***************************************************************************)
(* C28: every response of the API, a success or an error, is observed: the *)
(* limit, the remaining count and the reset time its headers carry replace *)
(* the values of the quota state, the local decrement included.            *)
(***************************************************************************)
C28_QuotaFollowsHeaders ==
    [][\A c \in Calls :
          (call[c].pc = "inflight" /\ call'[c].pc # "inflight")
          => LET h == call'[c].lastHeaders
             IN  /\ h.limit # Absent => rateLimitState'.limit = h.limit
                 /\ h.remaining # Absent => rateLimitState'.remaining = h.remaining
                 /\ h.reset # Absent => rateLimitState'.resetAt = now + h.reset
                 /\ h = NoHeaders => rateLimitState' = rateLimitState]_vars

\* a call was answered with an error whose headers say the quota is used up,
\* and the quota state, decremented once from more than one, says so too
C28_Witness ==
    \E c \in Calls :
        /\ call[c].pc = "failed"
        /\ call[c].lastHeaders = ExhaustedHeaders
        /\ quotaStart.remaining > 1
        /\ rateLimitState.remaining = 0
        /\ rateLimitState.resetAt = now + TickMs

(***************************************************************************)
(* C29: between two resets of the quota the remaining count never goes up, *)
(* however the checkRateLimit calls and the responses of concurrent        *)
(* requests interleave.                                                    *)
(***************************************************************************)
\* a step in which checkRateLimit resets the quota
QuotaReset ==
    \E c \in Calls :
        \/ /\ call[c].pc = "rateCheck" /\ call'[c].pc # "rateCheck"
           /\ rateLimitState.resetAt # Absent /\ now >= rateLimitState.resetAt
        \/ /\ call[c].pc \in {"quotaSleepReset", "quotaSleepWindow"}
           /\ call'[c].pc # call[c].pc

C29_RemainingNeverIncreases ==
    [][~QuotaReset => rateLimitState'.remaining <= rateLimitState.remaining]_vars

(***************************************************************************)
(* C30: before a 429 retry the client sleeps for the reset delay of the    *)
(* error's header when there is one, and for min(2^attempt, 60) seconds    *)
(* when there is none: never more than 60 s, whatever the attempt number.  *)
(***************************************************************************)
C30_RetryDelay ==
    retryCalc.delay # Absent =>
        IF retryCalc.reset # Absent
        THEN retryCalc.delay = retryCalc.reset
        ELSE /\ retryCalc.delay <= 60 * 1000
             /\ retryCalc.delay = IF retryCalc.attemptNumber <= 5
                                  THEN Pow2(retryCalc.attemptNumber) * 1000
                                  ELSE 60 * 1000

\* without a header the delay of attempt 6 is 60 s, not 64 s
C30_Witness ==
    /\ retryCalc.attemptNumber = 6
    /\ retryCalc.reset = Absent
    /\ retryCalc.delay = 60 * 1000

(***************************************************************************)
(* Properties of paging within a steady-state cycle.                       *)
(***************************************************************************)
\* C31: within a steady-state cycle the request for the next page carries as
\* its from-cursor the cursor of the page just handled, so it differs from
\* the request before it.
C31_NextRequestCarriesCursor ==
    [][\A k \in Cycles :
          (~cyc[k].isFirstPoll /\ cyc[k].pc = "process" /\ cyc'[k].pc = "fetch") =>
              /\ cyc'[k].query.from = cyc[k].nextPage
              /\ cyc'[k].query # cyc[k].query]_vars

\* C32: in a steady-state cycle every alert handed to processAlerts, and so
\* cached and counted, is later than the lastPollTime the cycle started from.
C32_OnlyNewerAlertsProcessed ==
    \A k \in Cycles :
        (~cyc[k].isFirstPoll /\ cyc[k].pc = "process") =>
            \A i \in Range(cyc[k].page) : published[i].ts > cyc[k].lastPollTimestamp

\* C33: the page request of a getAlerts handler that was asked for a count is
\* in count mode: the page size is the larger of the count and the default
\* page size, and neither a to nor a from cursor is sent.
C33_CountModeRequest ==
    \A m \in Msgs :
        msg[m].pc = "fetch" =>
            /\ msg[m].query.pageSize = Max(msg[m].alertCount, MAX_PAGE_SIZE)
            /\ msg[m].query.to = Null
            /\ msg[m].query.from = Null

(***************************************************************************)
(* Properties of the polling state across cycles.                          *)
(***************************************************************************)
\* the alertsProcessed of the cycles among S that returned {success: true}
RECURSIVE SumProcessed(_)
SumProcessed(S) ==
    IF S = {} THEN 0
    ELSE LET k == CHOOSE x \in S : TRUE
         IN  (IF cyc[k].pc = "done" /\ cyc[k].result = "success"
              THEN cyc[k].totalAlertsProcessed ELSE 0) + SumProcessed(S \ {k})

\* C34: totalAlertsProcessed of the polling state equals the sum of
\* alertsProcessed over the cycles that reported success, also when cycles
\* overlap in time.
C34_TotalIsSumOfCycles ==
    pollingState.totalAlertsProcessed = SumProcessed(Cycles)

(***************************************************************************)
(* Properties of requestsInParallel of the request client.                 *)
(***************************************************************************)
\* C35: while a requestsInParallel call runs, no more than `limit` of its
\* requests are in flight at the same time.
C35_AtMostLimitInFlight ==
    par.pc = "all" =>
        Cardinality({c \in ClientRequests : call[c].pc = "inflight"}) <= par.m

Waiting(c) == call[c].pc \in {"quotaSleepReset", "quotaSleepWindow"}

\* C37: a caller that waited in checkRateLimit for an exhausted quota uses
\* one unit of the fresh quota when it proceeds: the step in which it
\* leaves its sleep leaves remaining below limit.
C37_WaiterConsumesQuota ==
    [][\A c \in Calls :
          (Waiting(c) /\ call'[c].pc = "inflight") =>
              rateLimitState'.remaining <= rateLimitState'.limit - 1]_vars

(***************************************************************************)
(* Properties of the options createRequestsInParallel applies.             *)
(***************************************************************************)
\* C40: for option values that validateOptions accepts, the concurrency cap
\* and the delay between batches that a run applies are the configured
\* values; with requestDelayMs = 0 the next batch is due at once.
C40_ConfiguredValuesApplied ==
    (/\ par.pc \in {"batch", "sleep"}
     /\ validMaxConcurrentRequests(par.concurrentOpt)
     /\ validRequestDelayMs(par.delayOpt)) =>
        /\ par.m = par.concurrentOpt
        /\ par.delay = par.delayOpt
        /\ par.pc = "sleep" => par.wakeAt = par.settledAt + par.delayOpt

(***************************************************************************)
(* Properties of the bootstrap poll and of the rate-limited poll.          *)
(***************************************************************************)
\* C38: a cycle runs as a steady-state poll only after some cycle has
\* returned {success: true}; the step that fails a bootstrap cycle leaves
\* lastPollTime as it was, and a cycle that starts while lastPollTime is
\* unset is a bootstrap poll.
C38_SteadyStateOnlyAfterSuccess ==
    [][\A k \in Cycles :
          /\ (cyc'[k].pc # "idle" /\ ~cyc'[k].isFirstPoll) =>
                 \E j \in Cycles \ {k} : cyc'[j].pc = "done" /\ cyc'[j].result = "success"
          /\ (cyc[k].isFirstPoll /\ InProgress(k) /\ cyc'[k].result = "failure") =>
                 pollingState'.lastPollTime = pollingState.lastPollTime
          /\ (cyc[k].pc = "idle" /\ cyc'[k].pc # "idle") =>
                 (cyc'[k].isFirstPoll <=> pollingState'.lastPollTime = Absent)]_vars

\* a bootstrap cycle has failed, no cycle has succeeded, and the cycle the
\* timer started after the failure is a bootstrap poll again
C38_Witness ==
    \E j, k \in Cycles :
        /\ j < k
        /\ cyc[j].isFirstPoll /\ cyc[j].pc = "done" /\ cyc[j].result = "failure"
        /\ cyc[k].isFirstPoll /\ cyc[k].pc = "fetch"
        /\ \A i \in Cycles : cyc[i].result # "success"
        /\ pollingState.lastPollTime = Absent
        /\ pollingInitialized
        /\ now > 0

====
